---- MODULE Spec2Model ----
(***************************************************************************)
(* CanvasOverviewRenderer of obsidian-plugin-canvas-palace: the overview   *)
(* of a canvas document with bounds, fit-to-viewport scale, group          *)
(* resolution, pan/zoom framing, scene drawing and teardown.               *)
(*                                                                         *)
(* JavaScript numbers are modelled as exact extended rationals <<n, d>>    *)
(* with d >= 0: d > 0 is the reduced fraction n/d, <<1,0>> is Infinity,    *)
(* <<-1,0>> is -Infinity and <<0,0>> is NaN.  Division by zero, Infinity   *)
(* and NaN therefore behave as in IEEE-754; rounding is not modelled.      *)
(***************************************************************************)
EXTENDS Integers, Sequences, FiniteSets

(***************************************************************************)
(* Bounds of the model.                                                    *)
(***************************************************************************)
MaxNodes == 3
MaxStation == 2
MaxPending == 2

\* lines of a Markdown body
MaxLines == 2

\* overviews one modal creates
MaxOverviews == 3

(***************************************************************************)
(* Program constants.                                                      *)
(***************************************************************************)
OVERVIEW_WIDTH == 500
OVERVIEW_HEIGHT == 600
PADDING == 20

(***************************************************************************)
(* Extended rational arithmetic (the JavaScript number operations used).   *)
(***************************************************************************)
Abs(n) == IF n < 0 THEN -n ELSE n

Sign(n) == IF n > 0 THEN 1 ELSE IF n < 0 THEN -1 ELSE 0

RECURSIVE GCD(_, _)
GCD(a, b) == IF b = 0 THEN a ELSE GCD(b, a % b)

\* n/d with d >= 0, reduced; d = 0 gives Infinity, -Infinity or NaN
Norm(n, d) ==
  IF d = 0 THEN <<Sign(n), 0>>
  ELSE LET g == GCD(Abs(n), d) IN <<n \div g, d \div g>>

R(n) == <<n, 1>>

Frac(n, d) == Norm(n, d)

NaN == <<0, 0>>

Infinity == <<1, 0>>

IsNaN(a) == a = NaN

IsFinite(a) == a[2] > 0

Neg(a) == <<-a[1], a[2]>>

Add(a, b) ==
  IF IsNaN(a) \/ IsNaN(b) THEN NaN
  ELSE IF a[2] = 0 /\ b[2] = 0 THEN (IF a = b THEN a ELSE NaN)
  ELSE IF a[2] = 0 THEN a
  ELSE IF b[2] = 0 THEN b
  ELSE Norm(a[1] * b[2] + b[1] * a[2], a[2] * b[2])

Sub(a, b) == Add(a, Neg(b))

Mul(a, b) == Norm(a[1] * b[1], a[2] * b[2])

Div(a, b) ==
  LET n == a[1] * b[2]
      d == a[2] * b[1]
  IN IF d < 0 THEN Norm(-n, -d) ELSE Norm(n, d)

\* a < b; every comparison with NaN is false
Lt(a, b) ==
  /\ ~IsNaN(a)
  /\ ~IsNaN(b)
  /\ IF a[2] = 0 /\ b[2] = 0 THEN a[1] < b[1]
     ELSE a[1] * b[2] < b[1] * a[2]

Gt(a, b) == Lt(b, a)

Le(a, b) == ~IsNaN(a) /\ ~IsNaN(b) /\ ~Lt(b, a)

Ge(a, b) == Le(b, a)

\* Math.min / Math.max of two numbers: NaN when either is NaN
Min2(a, b) == IF IsNaN(a) \/ IsNaN(b) THEN NaN ELSE IF Lt(b, a) THEN b ELSE a

Max2(a, b) == IF IsNaN(a) \/ IsNaN(b) THEN NaN ELSE IF Lt(a, b) THEN b ELSE a

(***************************************************************************)
(* Text: a string is a sequence of one-character strings.                  *)
(***************************************************************************)
Digits == <<"0", "1", "2", "3", "4", "5", "6", "7", "8", "9">>

DigitChars == {Digits[i] : i \in 1..10}

DigitValue(c) == (CHOOSE i \in 1..10 : Digits[i] = c) - 1

\* Number.prototype.toString of a non-negative integer
RECURSIVE ToString(_)
ToString(n) ==
  IF n < 10 THEN <<Digits[n + 1]>>
  ELSE ToString(n \div 10) \o <<Digits[(n % 10) + 1]>>

\* /^\d+$/.test(text)
IsDecimal(text) == Len(text) > 0 /\ \A i \in 1..Len(text) : text[i] \in DigitChars

\* parseInt(text) of a text made of decimal digits
RECURSIVE ParseInt(_)
ParseInt(text) ==
  IF Len(text) = 0 THEN 0
  ELSE 10 * ParseInt(SubSeq(text, 1, Len(text) - 1)) + DigitValue(text[Len(text)])

(***************************************************************************)
(* Canvas documents.  A node is a record with the fields of CanvasNode     *)
(* that the renderer reads; label "" stands for a missing label.           *)
(***************************************************************************)
Node(id, type, x, y, width, height, text, label) ==
  [id |-> id, type |-> type, x |-> x, y |-> y, width |-> width,
   height |-> height, text |-> text, label |-> label]

\* The nodes documents are built from, in document order.
NodePool ==
  << Node("gA", "group", 0, 0, 400, 300, <<>>, "Room A"),
     Node("gB", "group", 0, 0, 1000, 1000, <<>>, ""),
     Node("n1", "text", 0, 0, 40, 40, <<"1">>, ""),
     Node("gZ", "group", 500, 400, 0, 0, <<>>, ""),
     Node("n2", "text", 500, 400, 40, 40, <<"2">>, ""),
     Node("n0", "text", 500, 400, 0, 0, <<"1">>, ""),
     Node("n01", "text", 0, 0, 40, 40, <<"0", "1">>, ""),
     Node("f1", "file", 420, 1080, 40, 40, <<>>, "") >>

RECURSIVE PickNodes(_)
PickNodes(S) ==
  IF S = {} THEN <<>>
  ELSE LET m == CHOOSE i \in S : \A j \in S : i <= j
       IN <<NodePool[m]>> \o PickNodes(S \ {m})

\* every document of at most MaxNodes pool nodes, in pool order
Docs ==
  {PickNodes(S) : S \in {T \in SUBSET (1..Len(NodePool)) : Cardinality(T) <= MaxNodes}}

\* What vault.adapter.read + JSON.parse yield for a file:
\*   "bad"    the read rejects or the text is not JSON
\*   "null"   the JSON text null
\*   "object" an object, with or without a nodes array
BadFile == [kind |-> "bad", hasNodes |-> FALSE, nodes |-> <<>>]

NullFile == [kind |-> "null", hasNodes |-> FALSE, nodes |-> <<>>]

EmptyObjectFile == [kind |-> "object", hasNodes |-> FALSE, nodes |-> <<>>]

DocFile(d) == [kind |-> "object", hasNodes |-> TRUE, nodes |-> d]

Paths == {"a", "b"}

\* file "a" holds any document or a JSON text without nodes; file "b" is
\* unreadable or holds the document without nodes
Vaults ==
  {[p \in Paths |-> IF p = "a" THEN fa ELSE fb] :
     fa \in {DocFile(d) : d \in Docs} \cup {NullFile, EmptyObjectFile},
     fb \in {BadFile, DocFile(<<>>)}}

Stations == 1..MaxStation

\* currentStationId = null
NoStation == -1

(***************************************************************************)
(* Bounds Calculator and Scale Resolver.                                   *)
(***************************************************************************)
MinOf(S) == CHOOSE m \in S : \A k \in S : m <= k

MaxOf(S) == CHOOSE m \in S : \A k \in S : m >= k

\* this.canvasData?.nodes is usable
HasNodes(data) == data.kind = "object" /\ data.hasNodes

\* mutant of calculateBounds: the right and bottom edges ignore the node sizes
calculateBoundsCorners(data) ==
  IF ~HasNodes(data) \/ Len(data.nodes) = 0
  THEN [minX |-> R(0), maxX |-> R(100), minY |-> R(0), maxY |-> R(100)]
  ELSE LET nodes == data.nodes
           I == 1..Len(nodes)
       IN [minX |-> R(MinOf({nodes[i].x : i \in I})),
           maxX |-> R(MaxOf({nodes[i].x : i \in I})),
           minY |-> R(MinOf({nodes[i].y : i \in I})),
           maxY |-> R(MaxOf({nodes[i].y : i \in I}))]

calculateBounds(data) ==
  IF ~HasNodes(data) \/ Len(data.nodes) = 0
  THEN [minX |-> R(0), maxX |-> R(100), minY |-> R(0), maxY |-> R(100)]
  ELSE LET nodes == data.nodes
           I == 1..Len(nodes)
       IN [minX |-> R(MinOf({nodes[i].x : i \in I})),
           maxX |-> R(MaxOf({nodes[i].x + nodes[i].width : i \in I})),
           minY |-> R(MinOf({nodes[i].y : i \in I})),
           maxY |-> R(MaxOf({nodes[i].y + nodes[i].height : i \in I}))]

AvailableWidth == R(OVERVIEW_WIDTH - 2 * PADDING)

AvailableHeight == R(OVERVIEW_HEIGHT - 2 * PADDING)

canvasWidth(b) == Sub(b.maxX, b.minX)

canvasHeight(b) == Sub(b.maxY, b.minY)

\* the quotients of calculateScale; a zero span gives Infinity
scaleX(b) == Div(AvailableWidth, canvasWidth(b))

scaleY(b) == Div(AvailableHeight, canvasHeight(b))

\* mutant of calculateScale: a small diagram is magnified to fill the viewport
calculateScaleUnclamped(b) == Min2(scaleX(b), scaleY(b))

\* mutant of calculateScale: the quotients are taken the wrong way round
calculateScaleInverted(b) ==
  Min2(Min2(Div(canvasWidth(b), AvailableWidth), Div(canvasHeight(b), AvailableHeight)), R(1))

calculateScale(b) == Min2(Min2(scaleX(b), scaleY(b)), R(1))

getEffectiveScale(bs, zoom) == Mul(bs, zoom)

(***************************************************************************)
(* Group Resolver.                                                         *)
(***************************************************************************)
\* mutant of isNodeInGroup: a node touching the group's edge is outside
isNodeInGroupStrict(node, group) ==
  /\ node.x > group.x
  /\ node.y > group.y
  /\ node.x + node.width < group.x + group.width
  /\ node.y + node.height < group.y + group.height

isNodeInGroup(node, group) ==
  /\ node.x >= group.x
  /\ node.y >= group.y
  /\ node.x + node.width <= group.x + group.width
  /\ node.y + node.height <= group.y + group.height

IsGroup(n) == n.type = "group"

\* groups.filter(group => this.isNodeInGroup(node, group))
ContainingGroups(data, node) ==
  LET InGroup(g) == IsGroup(g) /\ isNodeInGroup(node, g)
  IN SelectSeq(data.nodes, InGroup)

NoError == [kind |-> "none", text |-> <<>>, groups |-> <<>>]

\* the Error thrown by findContainingGroup: node.text and g.label || g.id of
\* every containing group
MultipleGroupsError(node, gs) ==
  [kind |-> "multipleGroups", text |-> node.text,
   groups |-> [i \in 1..Len(gs) |-> IF gs[i].label # "" THEN gs[i].label ELSE gs[i].id]]

\* mutant of findContainingGroup: with several containing groups the first
\* one is returned instead of throwing
findContainingGroupFirst(data, node) ==
  IF ~HasNodes(data) THEN [error |-> NoError, group |-> <<>>]
  ELSE LET gs == ContainingGroups(data, node)
       IN [error |-> NoError, group |-> IF Len(gs) > 0 THEN <<gs[1]>> ELSE <<>>]

\* result of findContainingGroup: the error thrown (NoError when it returns)
\* and the group returned, as a sequence of length 0 (null) or 1
findContainingGroup(data, node) ==
  IF ~HasNodes(data) THEN [error |-> NoError, group |-> <<>>]
  ELSE LET gs == ContainingGroups(data, node)
       IN IF Len(gs) > 1 THEN [error |-> MultipleGroupsError(node, gs), group |-> <<>>]
          ELSE [error |-> NoError, group |-> gs]

\* nodes.find(node => node.type === 'text' && node.text === id.toString()),
\* as a sequence of length 0 (undefined) or 1; a null id matches no text
FindStationNode(data, stationId) ==
  LET IsAnchor(n) == n.type = "text" /\ stationId # NoStation /\ n.text = ToString(stationId)
      found == SelectSeq(data.nodes, IsAnchor)
  IN IF Len(found) = 0 THEN <<>> ELSE <<found[1]>>

(***************************************************************************)
(* Framing.  A framing is the triple of currentZoomScale, panX and panY.   *)
(***************************************************************************)
Framing(zoom, px, py) == [zoom |-> zoom, panX |-> px, panY |-> py]

\* Math.max(-maxPan, Math.min(0, pan))
ClampPan(pan, maxPan) == Max2(Neg(maxPan), Min2(R(0), pan))

\* mutant of applyPanBounds: the pan is clamped also when the scaled canvas
\* is exactly as large as the available space
applyPanBoundsInclusive(b, bs, f) ==
  LET effectiveScale == getEffectiveScale(bs, f.zoom)
      scaledCanvasWidth == Mul(Sub(b.maxX, b.minX), effectiveScale)
      scaledCanvasHeight == Mul(Sub(b.maxY, b.minY), effectiveScale)
  IN Framing(f.zoom,
             IF Ge(scaledCanvasWidth, AvailableWidth)
             THEN ClampPan(f.panX, Sub(scaledCanvasWidth, AvailableWidth))
             ELSE f.panX,
             IF Ge(scaledCanvasHeight, AvailableHeight)
             THEN ClampPan(f.panY, Sub(scaledCanvasHeight, AvailableHeight))
             ELSE f.panY)

applyPanBounds(b, bs, f) ==
  LET effectiveScale == getEffectiveScale(bs, f.zoom)
      scaledCanvasWidth == Mul(Sub(b.maxX, b.minX), effectiveScale)
      scaledCanvasHeight == Mul(Sub(b.maxY, b.minY), effectiveScale)
  IN Framing(f.zoom,
             IF Gt(scaledCanvasWidth, AvailableWidth)
             THEN ClampPan(f.panX, Sub(scaledCanvasWidth, AvailableWidth))
             ELSE f.panX,
             IF Gt(scaledCanvasHeight, AvailableHeight)
             THEN ClampPan(f.panY, Sub(scaledCanvasHeight, AvailableHeight))
             ELSE f.panY)

\* centre of a node on each axis, relative to the bounds, at a scale
CenterX(n, b, scale) == Mul(Sub(Add(R(n.x), Frac(n.width, 2)), b.minX), scale)

CenterY(n, b, scale) == Mul(Sub(Add(R(n.y), Frac(n.height, 2)), b.minY), scale)

\* the pan computed by centring, before applyPanBounds
CenteredOn(n, b, bs, zoom) ==
  Framing(zoom,
          Sub(Frac(OVERVIEW_WIDTH, 2), CenterX(n, b, getEffectiveScale(bs, zoom))),
          Sub(Frac(OVERVIEW_HEIGHT, 2), CenterY(n, b, getEffectiveScale(bs, zoom))))

\* mutant of GroupZoom: the zoom is not kept at or above 1
GroupZoomNoFloor(group, bs) ==
  LET zoomToFitX == Div(AvailableWidth, Mul(R(group.width), Frac(6, 5)))
      zoomToFitY == Div(AvailableHeight, Mul(R(group.height), Frac(6, 5)))
      targetZoom == Min2(zoomToFitX, zoomToFitY)
  IN Div(targetZoom, bs)

\* mutant of GroupZoom: the group is fitted on its looser axis only
GroupZoomLooserAxis(group, bs) ==
  LET zoomToFitX == Div(AvailableWidth, Mul(R(group.width), Frac(6, 5)))
      zoomToFitY == Div(AvailableHeight, Mul(R(group.height), Frac(6, 5)))
      targetZoom == Max2(zoomToFitX, zoomToFitY)
  IN Max2(Div(targetZoom, bs), R(1))

GroupZoom(group, bs) ==
  LET zoomToFitX == Div(AvailableWidth, Mul(R(group.width), Frac(6, 5)))
      zoomToFitY == Div(AvailableHeight, Mul(R(group.height), Frac(6, 5)))
      targetZoom == Min2(zoomToFitX, zoomToFitY)
  IN Max2(Div(targetZoom, bs), R(1))

panToGroup(group, b, bs) == applyPanBounds(b, bs, CenteredOn(group, b, bs, GroupZoom(group, bs)))

\* mutant of NodeZoom: the zoom is not clamped to [1.5, 3]
NodeZoomUnclamped(bs) == Div(R(1), bs)

NodeZoom(bs) == Min2(R(3), Max2(Frac(3, 2), Div(R(1), bs)))

panToNode(node, b, bs) == applyPanBounds(b, bs, CenteredOn(node, b, bs, NodeZoom(bs)))

\* mutant of panToStation: the new zoom is applied on top of the current one
panToStationCompounding(data, b, bs, f, stationId) ==
  IF ~HasNodes(data) THEN [error |-> NoError, framing |-> f]
  ELSE LET stationNode == FindStationNode(data, stationId)
       IN IF Len(stationNode) = 0 THEN [error |-> NoError, framing |-> f]
          ELSE LET r == findContainingGroup(data, stationNode[1])
                   g == IF Len(r.group) > 0 THEN r.group[1] ELSE stationNode[1]
                   z == Mul(f.zoom, IF Len(r.group) > 0 THEN GroupZoom(g, bs) ELSE NodeZoom(bs))
               IN IF r.error # NoError THEN [error |-> r.error, framing |-> f]
                  ELSE [error |-> NoError,
                        framing |-> applyPanBounds(b, bs, CenteredOn(g, b, bs, z))]

\* mutant of panToStation: the anchor is framed before its groups are resolved
panToStationFramesFirst(data, b, bs, f, stationId) ==
  IF ~HasNodes(data) THEN [error |-> NoError, framing |-> f]
  ELSE LET stationNode == FindStationNode(data, stationId)
       IN IF Len(stationNode) = 0 THEN [error |-> NoError, framing |-> f]
          ELSE LET r == findContainingGroup(data, stationNode[1])
               IN IF r.error # NoError
                  THEN [error |-> r.error, framing |-> panToNode(stationNode[1], b, bs)]
                  ELSE IF Len(r.group) > 0
                  THEN [error |-> NoError, framing |-> panToGroup(r.group[1], b, bs)]
                  ELSE [error |-> NoError, framing |-> panToNode(stationNode[1], b, bs)]

\* result of panToStation: the error thrown (NoError when it returns) and the
\* framing it leaves, given the framing f it starts from
panToStation(data, b, bs, f, stationId) ==
  IF ~HasNodes(data) THEN [error |-> NoError, framing |-> f]
  ELSE LET stationNode == FindStationNode(data, stationId)
       IN IF Len(stationNode) = 0 THEN [error |-> NoError, framing |-> f]
          ELSE LET r == findContainingGroup(data, stationNode[1])
               IN IF r.error # NoError THEN [error |-> r.error, framing |-> f]
                  ELSE IF Len(r.group) > 0
                  THEN [error |-> NoError, framing |-> panToGroup(r.group[1], b, bs)]
                  ELSE [error |-> NoError, framing |-> panToNode(stationNode[1], b, bs)]

(***************************************************************************)
(* Scene Renderer.  The content of the svg element is a record:            *)
(*   kind "blank"  the element as setupContainer creates it                *)
(*   kind "defs"   cleared, only the <defs> child appended                 *)
(*   kind "scene"  <defs> and the transformed <g> with its elements        *)
(*   kind "error"  the text placeholder of showError                       *)
(*   kind "none"   there is no element: this.svgElement is null            *)
(***************************************************************************)
NoTransform == <<R(0), R(0), R(0)>>

BlankContent == [kind |-> "blank", transform |-> NoTransform, elems |-> <<>>]

DefsContent == [kind |-> "defs", transform |-> NoTransform, elems |-> <<>>]

ErrorContent == [kind |-> "error", transform |-> NoTransform, elems |-> <<>>]

NoContent == [kind |-> "none", transform |-> NoTransform, elems |-> <<>>]

\* one drawn element: tag "rect" or "text", of a "group" or an "anchor",
\* drawn highlighted or not; station is the id its click handler reports
\* (NoStation when it has no click handler)
Elem(tag, of, node, highlighted, station) ==
  [tag |-> tag, of |-> of, node |-> node.id, highlighted |-> highlighted, station |-> station]

RECURSIVE FlatMap(_, _)
FlatMap(F(_), seq) == IF Len(seq) = 0 THEN <<>> ELSE F(Head(seq)) \o FlatMap(F, Tail(seq))

\* the elements renderGroups appends, given the current group (length 0 or 1)
GroupElems(data, currentGroup) ==
  LET Draw(n) ==
        IF ~IsGroup(n) THEN <<>>
        ELSE LET isCurrentGroup == Len(currentGroup) > 0 /\ currentGroup[1].id = n.id
             IN <<Elem("rect", "group", n, isCurrentGroup, NoStation)>>
                \o (IF n.label # "" THEN <<Elem("text", "group", n, isCurrentGroup, NoStation)>>
                    ELSE <<>>)
  IN FlatMap(Draw, data.nodes)

\* mutant of NodeElems: only the rectangle of an anchor listens to clicks
NodeElemsRectOnly(data, stationId) ==
  LET Draw(n) ==
        IF IsGroup(n) THEN <<>>
        ELSE IF ~(n.type = "text" /\ IsDecimal(n.text)) THEN <<>>
        ELSE LET id == ParseInt(n.text)
             IN << Elem("rect", "anchor", n, id = stationId, id),
                   Elem("text", "anchor", n, FALSE, NoStation) >>
  IN FlatMap(Draw, data.nodes)

\* mutant of NodeElems: every node that is not a group is drawn
NodeElemsAll(data, stationId) ==
  LET Draw(n) ==
        IF IsGroup(n) THEN <<>>
        ELSE LET id == ParseInt(n.text)
             IN << Elem("rect", "anchor", n, id = stationId, id),
                   Elem("text", "anchor", n, FALSE, id) >>
  IN FlatMap(Draw, data.nodes)

\* the elements renderNodes appends
NodeElems(data, stationId) ==
  LET Draw(n) ==
        IF IsGroup(n) THEN <<>>
        ELSE IF ~(n.type = "text" /\ IsDecimal(n.text)) THEN <<>>
        ELSE LET id == ParseInt(n.text)
             IN << Elem("rect", "anchor", n, id = stationId, id),
                   Elem("text", "anchor", n, FALSE, id) >>
  IN FlatMap(Draw, data.nodes)

\* mutant of render: the previous content is not cleared, the new elements
\* are appended to it
renderAppending(svg, content, data, b, bs, f, stationId) ==
  IF ~svg \/ data.kind = "null" THEN [error |-> NoError, content |-> content]
  ELSE LET transform == << Add(R(PADDING), f.panX), Add(R(PADDING), f.panY),
                           getEffectiveScale(bs, f.zoom) >>
       IN IF ~HasNodes(data)
          THEN [error |-> NoError,
                content |-> [kind |-> "scene", transform |-> transform,
                             elems |-> content.elems]]
          ELSE LET node == FindStationNode(data, stationId)
                   r == IF Len(node) > 0 THEN findContainingGroup(data, node[1])
                        ELSE [error |-> NoError, group |-> <<>>]
               IN IF r.error # NoError THEN [error |-> r.error, content |-> DefsContent]
                  ELSE [error |-> NoError,
                        content |-> [kind |-> "scene", transform |-> transform,
                                     elems |-> content.elems
                                               \o GroupElems(data, r.group)
                                               \o NodeElems(data, stationId)]]

\* result of render(): the error thrown (NoError when it returns) and the
\* content it leaves in the svg element
render(svg, content, data, b, bs, f, stationId) ==
  IF ~svg \/ data.kind = "null" THEN [error |-> NoError, content |-> content]
  ELSE LET transform == << Add(R(PADDING), f.panX), Add(R(PADDING), f.panY),
                           getEffectiveScale(bs, f.zoom) >>
       IN IF ~HasNodes(data)
          THEN [error |-> NoError,
                content |-> [kind |-> "scene", transform |-> transform, elems |-> <<>>]]
          ELSE LET node == FindStationNode(data, stationId)
                   r == IF Len(node) > 0 THEN findContainingGroup(data, node[1])
                        ELSE [error |-> NoError, group |-> <<>>]
               IN IF r.error # NoError THEN [error |-> r.error, content |-> DefsContent]
                  ELSE [error |-> NoError,
                        content |-> [kind |-> "scene", transform |-> transform,
                                     elems |-> GroupElems(data, r.group)
                                               \o NodeElems(data, stationId)]]

\* mutant of showError: the placeholder is written without testing that the
\* element exists
showErrorUnguarded(svg, content) == ErrorContent

\* the content showError leaves
showError(svg, content) == IF svg THEN ErrorContent ELSE content

(***************************************************************************)
(* The renderer as a state machine.                                        *)
(***************************************************************************)
VARIABLES
  files,             \* the vault: content of each canvas file
  canvasData,        \* this.canvasData (kind "null" is null)
  canvasPath,        \* this.canvasPath ("" is null)
  svgElement,        \* this.svgElement is not null
  svgContent,        \* what the svg element holds
  currentStationId,  \* this.currentStationId (NoStation is null)
  bounds,            \* this.bounds
  baseScale,         \* this.baseScale
  currentZoomScale,  \* this.currentZoomScale
  panX,              \* this.panX
  panY,              \* this.panY
  pending,           \* per path, the loadCanvas calls suspended at the await
  lastOp,            \* the operation or continuation that ran last
  thrown,            \* the error that operation threw to its caller
  onStationClick,    \* this.onStationClick (NoCallback is undefined)
  lastClick          \* the click dispatched by the last step, with the calls it made

\* the plugin's manual sync
VARIABLES
  activeFile,        \* the file workspace.getActiveFile() returns
  syncFormat,        \* the format the last sync parsed and wrote with ("none": no sync ran)
  syncNotice         \* the Notice the last sync command showed

syncVars == << activeFile, syncFormat, syncNotice >>

\* the presentation modal
VARIABLES
  stations,             \* this.stations, as the sorted station ids
  currentStationIndex,  \* this.currentStationIndex
  isAnswerVisible,      \* this.isAnswerVisible
  modalCanvasPath,      \* the modal's this.canvasPath ("" is null)
  modalScreen,          \* "none", "constructed", "station", "end" or "closed"
  canvasOverview,       \* this.canvasOverview, as a position in overviews (0 is null)
  overviews             \* the CanvasOverviewRenderer objects the modal has created

modalVars == << stations, currentStationIndex, isAnswerVisible, modalCanvasPath,
                modalScreen, canvasOverview, overviews >>

vars == << files, canvasData, canvasPath, svgElement, svgContent, currentStationId,
           bounds, baseScale, currentZoomScale, panX, panY, pending, lastOp, thrown,
           onStationClick, lastClick, activeFile, syncFormat, syncNotice,
           stations, currentStationIndex, isAnswerVisible, modalCanvasPath,
           modalScreen, canvasOverview, overviews >>

\* an overview not created yet
NoOverview ==
  [created |-> FALSE, svgElement |-> FALSE, canvasData |-> NullFile,
   currentStationId |-> NoStation, framing |-> Framing(R(1), R(0), R(0)),
   svgContent |-> NoContent, onStationClick |-> FALSE, awaiting |-> NoStation]

\* new CanvasOverviewRenderer(app, leftPanel), awaited by the
\* renderCurrentStation call that shows station id
NewOverview(id) ==
  [created |-> TRUE, svgElement |-> TRUE, canvasData |-> NullFile,
   currentStationId |-> NoStation, framing |-> Framing(R(1), R(0), R(0)),
   svgContent |-> BlankContent, onStationClick |-> FALSE, awaiting |-> id]

ModalIdle ==
  /\ stations = <<>>
  /\ currentStationIndex = 0
  /\ isAnswerVisible = FALSE
  /\ modalCanvasPath = ""
  /\ modalScreen = "none"
  /\ canvasOverview = 0
  /\ overviews = [k \in 1..MaxOverviews |-> NoOverview]

\* no active file
NoActiveFile ==
  [extension |-> "none", hasCanvas |-> FALSE, canvasWritable |-> FALSE,
   format |-> "", content |-> <<>>]

SyncIdle ==
  /\ activeFile = NoActiveFile
  /\ syncFormat = "none"
  /\ syncNotice = "none"

\* the host's callbacks
Callbacks == {"cb1", "cb2"}

NoCallback == "none"

\* what a click lands on when it is not on a drawn element
Background ==
  [tag |-> "svg", of |-> "background", node |-> "", highlighted |-> FALSE,
   station |-> NoStation]

NoClick == [target |-> Background, calls |-> <<>>]

CurrentFraming == Framing(currentZoomScale, panX, panY)

InitRenderer ==
  /\ files \in Vaults
  /\ canvasData = NullFile
  /\ canvasPath = ""
  /\ svgElement = TRUE
  /\ svgContent = BlankContent
  /\ currentStationId = NoStation
  /\ bounds = [minX |-> R(0), maxX |-> R(0), minY |-> R(0), maxY |-> R(0)]
  /\ baseScale = R(1)
  /\ currentZoomScale = R(1)
  /\ panX = R(0)
  /\ panY = R(0)
  /\ pending = [p \in Paths |-> 0]
  /\ lastOp = "constructor"
  /\ thrown = NoError
  /\ onStationClick = NoCallback
  /\ lastClick = NoClick

Init == InitRenderer /\ SyncIdle /\ ModalIdle

RECURSIVE SumOver(_, _)
SumOver(f, S) ==
  IF S = {} THEN 0
  ELSE LET x == CHOOSE y \in S : TRUE IN f[x] + SumOver(f, S \ {x})

\* number of reads in flight
NumPending == SumOver(pending, Paths)

\* loadCanvas up to the await: the path is stored and the read is started
LoadCanvas(path) ==
  /\ NumPending < MaxPending
  /\ canvasPath' = path
  /\ pending' = [pending EXCEPT ![path] = @ + 1]
  /\ lastOp' = "loadCanvas"
  /\ thrown' = NoError
  /\ UNCHANGED << files, canvasData, svgElement, svgContent, currentStationId,
                  bounds, baseScale, currentZoomScale, panX, panY >>
  /\ lastClick' = NoClick
  /\ UNCHANGED onStationClick
  /\ UNCHANGED << syncVars, modalVars >>

\* loadCanvas after the await: a read of the file at path settles
ReadResolved(path) ==
  /\ pending[path] > 0
  /\ pending' = [pending EXCEPT ![path] = @ - 1]
  /\ lastOp' = "readResolved"
  /\ thrown' = NoError
  /\ IF files[path].kind = "bad"
     THEN /\ svgContent' = showError(svgElement, svgContent)
          /\ UNCHANGED << canvasData, bounds, baseScale >>
     ELSE /\ canvasData' = files[path]
          /\ bounds' = calculateBounds(canvasData')
          /\ baseScale' = calculateScale(bounds')
          /\ LET rr == render(svgElement, svgContent, canvasData', bounds', baseScale',
                              CurrentFraming, currentStationId)
             IN svgContent' = IF rr.error # NoError
                              THEN showError(svgElement, rr.content)
                              ELSE rr.content
  /\ UNCHANGED << files, canvasPath, svgElement, currentStationId,
                  currentZoomScale, panX, panY >>
  /\ lastClick' = NoClick
  /\ UNCHANGED onStationClick
  /\ UNCHANGED << syncVars, modalVars >>

SetCurrentStation(stationId) ==
  /\ currentStationId' = stationId
  /\ lastOp' = "setCurrentStation"
  /\ LET p == panToStation(canvasData, bounds, baseScale, CurrentFraming, stationId)
         rr == render(svgElement, svgContent, canvasData, bounds, baseScale,
                      p.framing, stationId)
     IN /\ currentZoomScale' = p.framing.zoom
        /\ panX' = p.framing.panX
        /\ panY' = p.framing.panY
        /\ IF p.error # NoError
           THEN thrown' = p.error /\ UNCHANGED svgContent
           ELSE thrown' = rr.error /\ svgContent' = rr.content
  /\ UNCHANGED << files, canvasData, canvasPath, svgElement, bounds, baseScale,
                  pending >>
  /\ lastClick' = NoClick
  /\ UNCHANGED onStationClick
  /\ UNCHANGED << syncVars, modalVars >>

\* mutant of ResetZoom: the vertical pan is not reset
ResetZoomKeepsPanY ==
  /\ currentZoomScale' = R(1)
  /\ panX' = R(0)
  /\ lastOp' = "resetZoom"
  /\ LET rr == render(svgElement, svgContent, canvasData, bounds, baseScale,
                      Framing(R(1), R(0), panY), currentStationId)
     IN thrown' = rr.error /\ svgContent' = rr.content
  /\ UNCHANGED << files, canvasData, canvasPath, svgElement, currentStationId,
                  bounds, baseScale, pending, panY >>
  /\ lastClick' = NoClick
  /\ UNCHANGED onStationClick
  /\ UNCHANGED << syncVars, modalVars >>

ResetZoom ==
  /\ currentZoomScale' = R(1)
  /\ panX' = R(0)
  /\ panY' = R(0)
  /\ lastOp' = "resetZoom"
  /\ LET rr == render(svgElement, svgContent, canvasData, bounds, baseScale,
                      Framing(R(1), R(0), R(0)), currentStationId)
     IN thrown' = rr.error /\ svgContent' = rr.content
  /\ UNCHANGED << files, canvasData, canvasPath, svgElement, currentStationId,
                  bounds, baseScale, pending >>
  /\ lastClick' = NoClick
  /\ UNCHANGED onStationClick
  /\ UNCHANGED << syncVars, modalVars >>

\* destroy: the element, if any, is removed and the reference dropped
Destroy ==
  /\ svgElement' = FALSE
  /\ svgContent' = NoContent
  /\ lastOp' = "destroy"
  /\ thrown' = NoError
  /\ UNCHANGED << files, canvasData, canvasPath, currentStationId,
                  bounds, baseScale, currentZoomScale, panX, panY, pending >>
  /\ lastClick' = NoClick
  /\ UNCHANGED onStationClick
  /\ UNCHANGED << syncVars, modalVars >>

Next ==
  \/ \E path \in Paths : LoadCanvas(path)
  \/ \E path \in Paths : ReadResolved(path)
  \/ \E stationId \in Stations : SetCurrentStation(stationId)
  \/ ResetZoom
  \/ Destroy

Spec == Init /\ [][Next]_vars

(***************************************************************************)
(* The click surface: the host registers a callback and the user clicks on *)
(* the overview.                                                           *)
(***************************************************************************)
SetOnStationClick(callback) ==
  /\ onStationClick' = callback
  /\ lastOp' = "setOnStationClick"
  /\ thrown' = NoError
  /\ lastClick' = NoClick
  /\ UNCHANGED << files, canvasData, canvasPath, svgElement, svgContent,
                  currentStationId, bounds, baseScale, currentZoomScale, panX, panY,
                  pending >>
  /\ UNCHANGED << syncVars, modalVars >>

\* a click whose target is the element at position target of the scene, or,
\* for target 0, no drawn element; only the listeners of the target run
Click(target) ==
  /\ target = 0 \/ (svgElement /\ target \in 1..Len(svgContent.elems))
  /\ LET el == IF target = 0 THEN Background ELSE svgContent.elems[target]
     IN lastClick' =
          [target |-> el,
           calls |-> IF el.station # NoStation /\ onStationClick # NoCallback
                     THEN << [callback |-> onStationClick, stationId |-> el.station] >>
                     ELSE <<>>]
  /\ lastOp' = "click"
  /\ thrown' = NoError
  /\ UNCHANGED << files, canvasData, canvasPath, svgElement, svgContent,
                  currentStationId, bounds, baseScale, currentZoomScale, panX, panY,
                  pending, onStationClick >>
  /\ UNCHANGED << syncVars, modalVars >>

\* the vaults of the click runs: file "a" holds a document of MaxNodes nodes
\* with the labelled group and the anchor "01" among them, file "b" is
\* unreadable
ClickVaults ==
  {v \in Vaults :
     /\ v["b"] = BadFile
     /\ v["a"].kind = "object"
     /\ Len(v["a"].nodes) = MaxNodes
     /\ \E i, j \in 1..MaxNodes : v["a"].nodes[i].id = "gA" /\ v["a"].nodes[j].id = "n01"}

InitClick == Init /\ files \in ClickVaults

NextClick ==
  \/ Next
  \/ \E callback \in Callbacks : SetOnStationClick(callback)
  \/ \E target \in 0..Len(svgContent.elems) : Click(target)

SpecClick == InitClick /\ [][NextClick]_vars

(***************************************************************************)
(* The plugin's manual sync commands.  A Markdown file is its frontmatter  *)
(* (canvas, format) and the lines of its body, each line named by the key  *)
(* it starts with; every body line follows a line break.                   *)
(***************************************************************************)
LineKeys == {"station", "text", "association", "image", "audio", "video"}

Contents == UNION {[1..k -> LineKeys] : k \in 0..MaxLines}

\* frontmatter.format: "" when the key is absent
Formats == {"", "M1", "M2"}

ActiveFiles ==
  {NoActiveFile}
    \cup [extension : {"md", "canvas"}, hasCanvas : BOOLEAN, canvasWritable : BOOLEAN,
          format : Formats, content : Contents]

\* !/\n\s*(association|image|audio):/m.test(content)
isM1Format(content) ==
  ~\E i \in 1..Len(content) : content[i] \in {"association", "image", "audio"}

\* forceM1 || frontmatter.format === 'M1' || this.isM1Format(fileContent)
useM1Format(forceM1, file) ==
  forceM1 \/ file.format = "M1" \/ isM1Format(file.content)

\* the command 'Sync Memory Palace' (forceM1 false) or 'Sync Memory Palace
\* (M1 Format)' (forceM1 true)
HandleManualSync(forceM1) ==
  /\ lastOp' = IF forceM1 THEN "sync-memory-palace-m1" ELSE "sync-memory-palace"
  /\ IF activeFile.extension # "md"
     THEN syncFormat' = "none" /\ syncNotice' = "Please open a Markdown file to sync"
     ELSE IF ~activeFile.hasCanvas
     THEN syncFormat' = "none" /\ syncNotice' = "No canvas specified in frontmatter"
     ELSE /\ syncFormat' = IF useM1Format(forceM1, activeFile) THEN "M1" ELSE "M2"
          /\ syncNotice' = IF activeFile.canvasWritable THEN "Memory Palace synced"
                           ELSE "Error syncing Memory Palace"
  /\ UNCHANGED << files, canvasData, canvasPath, svgElement, svgContent,
                  currentStationId, bounds, baseScale, currentZoomScale, panX, panY,
                  pending, thrown, onStationClick, lastClick, activeFile >>
  /\ UNCHANGED modalVars

\* a plugin with some file active and no overview
InitSync ==
  /\ InitRenderer
  /\ files = [path \in Paths |-> IF path = "a" THEN NullFile ELSE BadFile]
  /\ activeFile \in ActiveFiles
  /\ syncFormat = "none"
  /\ syncNotice = "none"
  /\ ModalIdle

NextSync == \E forceM1 \in BOOLEAN : HandleManualSync(forceM1)

SpecSync == InitSync /\ [][NextSync]_vars

(***************************************************************************)
(* The presentation modal.  Each renderCurrentStation call creates an      *)
(* overview, starts its load and is suspended until the load settles; the  *)
(* overviews are records with the renderer's fields, moved by the          *)
(* renderer's own operators.                                               *)
(***************************************************************************)
\* the variables of the stand-alone renderer and of the sync
standaloneVars ==
  << files, canvasData, canvasPath, svgElement, svgContent, currentStationId,
     bounds, baseScale, currentZoomScale, panX, panY, pending, thrown,
     onStationClick, lastClick, syncVars >>

\* loadCanvas on overview o, from the moment the read of file settles
overviewLoadCanvas(o, file) ==
  IF file.kind = "bad"
  THEN [o EXCEPT !.svgContent = showError(o.svgElement, o.svgContent)]
  ELSE LET b == calculateBounds(file)
           rr == render(o.svgElement, o.svgContent, file, b, calculateScale(b),
                        o.framing, o.currentStationId)
       IN [o EXCEPT !.canvasData = file,
                    !.svgContent = IF rr.error # NoError
                                   THEN showError(o.svgElement, rr.content)
                                   ELSE rr.content]

\* setCurrentStation on overview o, its error caught by the modal
overviewSetCurrentStation(o, stationId) ==
  LET b == calculateBounds(o.canvasData)
      p == panToStation(o.canvasData, b, calculateScale(b), o.framing, stationId)
      rr == render(o.svgElement, o.svgContent, o.canvasData, b, calculateScale(b),
                   p.framing, stationId)
  IN [o EXCEPT !.currentStationId = stationId,
               !.framing = p.framing,
               !.svgContent = IF p.error # NoError THEN @ ELSE rr.content]

\* destroy on overview o
overviewDestroy(o) == [o EXCEPT !.svgElement = FALSE, !.svgContent = NoContent]

NumCreated == Cardinality({k \in 1..MaxOverviews : overviews[k].created})

\* onClose: the live overview is destroyed and the reference dropped
onClose ==
  /\ modalScreen' = "closed"
  /\ canvasOverview' = 0
  /\ overviews' = [k \in 1..MaxOverviews |->
                     IF k = canvasOverview THEN overviewDestroy(overviews[k])
                     ELSE overviews[k]]

\* renderCurrentStation up to its await, for the station at index
renderCurrentStation(index) ==
  IF index >= Len(stations) THEN onClose
  ELSE IF modalCanvasPath = ""
  THEN modalScreen' = "station" /\ UNCHANGED << canvasOverview, overviews >>
  ELSE LET new == NumCreated + 1
       IN /\ new <= MaxOverviews
          /\ modalScreen' = "station"
          /\ canvasOverview' = new
          /\ overviews' = [k \in 1..MaxOverviews |->
                             IF k = new THEN NewOverview(stations[index + 1])
                             ELSE IF k = canvasOverview THEN overviewDestroy(overviews[k])
                             ELSE overviews[k]]

\* showEndScreen: the content, overview included, leaves the page
showEndScreen == modalScreen' = "end" /\ UNCHANGED << canvasOverview, overviews >>

handleNext ==
  /\ isAnswerVisible' = FALSE
  /\ IF currentStationIndex < Len(stations) - 1
     THEN /\ currentStationIndex' = currentStationIndex + 1
          /\ renderCurrentStation(currentStationIndex + 1)
     ELSE /\ UNCHANGED currentStationIndex
          /\ showEndScreen

OnOpen ==
  /\ modalScreen = "constructed"
  /\ lastOp' = "onOpen"
  /\ renderCurrentStation(currentStationIndex)
  /\ UNCHANGED << standaloneVars, stations, modalCanvasPath, currentStationIndex,
                  isAnswerVisible >>

\* the keydown handler is installed between onOpen and onClose
KeysHandled == modalScreen \in {"station", "end"}

HandleNext ==
  /\ KeysHandled
  /\ lastOp' = "handleNext"
  /\ handleNext
  /\ UNCHANGED << standaloneVars, stations, modalCanvasPath >>

HandlePrevious ==
  /\ KeysHandled
  /\ lastOp' = "handlePrevious"
  /\ isAnswerVisible' = FALSE
  /\ IF currentStationIndex > 0
     THEN /\ currentStationIndex' = currentStationIndex - 1
          /\ renderCurrentStation(currentStationIndex - 1)
     ELSE UNCHANGED << currentStationIndex, modalScreen, canvasOverview, overviews >>
  /\ UNCHANGED << standaloneVars, stations, modalCanvasPath >>

HandleEnter ==
  /\ KeysHandled
  /\ lastOp' = "handleEnter"
  /\ IF isAnswerVisible
     THEN handleNext
     ELSE /\ isAnswerVisible' = TRUE
          /\ UNCHANGED currentStationIndex
          /\ renderCurrentStation(currentStationIndex)
  /\ UNCHANGED << standaloneVars, stations, modalCanvasPath >>

\* positions of the station with the given id (findIndex, 1-based)
StationIndexes(stationId) == {i \in 1..Len(stations) : stations[i] = stationId}

\* a click on a listening element of the overview on the page: the callback
\* is navigateToStation
CanvasClick(target) ==
  /\ modalScreen = "station"
  /\ canvasOverview # 0
  /\ LET o == overviews[canvasOverview]
     IN /\ o.svgElement
        /\ o.onStationClick
        /\ target \in 1..Len(o.svgContent.elems)
        /\ o.svgContent.elems[target].station # NoStation
        /\ LET found == StationIndexes(o.svgContent.elems[target].station)
           IN IF found # {}
              THEN /\ currentStationIndex' = MinOf(found) - 1
                   /\ isAnswerVisible' = FALSE
                   /\ renderCurrentStation(MinOf(found) - 1)
              ELSE UNCHANGED << currentStationIndex, isAnswerVisible, modalScreen,
                                canvasOverview, overviews >>
  /\ lastOp' = "canvasClick"
  /\ UNCHANGED << standaloneVars, stations, modalCanvasPath >>

\* the end screen's restart button
Restart ==
  /\ modalScreen = "end"
  /\ lastOp' = "restart"
  /\ currentStationIndex' = 0
  /\ isAnswerVisible' = FALSE
  /\ renderCurrentStation(0)
  /\ UNCHANGED << standaloneVars, stations, modalCanvasPath >>

\* Escape, or the end screen's close button
Close ==
  /\ modalScreen \in {"station", "end"}
  /\ lastOp' = "close"
  /\ onClose
  /\ UNCHANGED << standaloneVars, stations, modalCanvasPath, currentStationIndex,
                  isAnswerVisible >>

\* the load of overview k settles and the renderCurrentStation call that
\* awaits it runs on: it registers the click callback and sets the station
\* it was called for on whatever this.canvasOverview is by now; with no
\* overview left the TypeError is caught
OverviewLoaded(k) ==
  /\ overviews[k].awaiting # NoStation
  /\ lastOp' = "overviewLoaded"
  /\ LET loaded == [overviewLoadCanvas(overviews[k], files[modalCanvasPath])
                      EXCEPT !.awaiting = NoStation]
         after == [j \in 1..MaxOverviews |-> IF j = k THEN loaded ELSE overviews[j]]
     IN overviews' =
          [j \in 1..MaxOverviews |->
             IF j = canvasOverview
             THEN overviewSetCurrentStation([after[j] EXCEPT !.onStationClick = TRUE],
                                            overviews[k].awaiting)
             ELSE after[j]]
  /\ UNCHANGED << standaloneVars, stations, modalCanvasPath, currentStationIndex,
                  isAnswerVisible, modalScreen, canvasOverview >>

\* Array.from(palaceData.values()).sort(...): the non-empty lists of
\* distinct station ids in increasing order
RECURSIVE SortedSeq(_)
SortedSeq(S) ==
  IF S = {} THEN <<>> ELSE <<MinOf(S)>> \o SortedSeq(S \ {MinOf(S)})

StationLists == {SortedSeq(S) : S \in (SUBSET Stations) \ {{}}}

\* the canvas of the presentation: at path "a" a document with a grouped
\* and an ungrouped anchor, or one whose anchor lies in two groups; path "b"
\* is unreadable
ModalVaults ==
  {v \in Vaults :
     /\ v["b"] = BadFile
     /\ v["a"] \in {DocFile(PickNodes({1, 3, 5})), DocFile(PickNodes({1, 2, 3}))}}

InitModal ==
  /\ InitRenderer
  /\ SyncIdle
  /\ files \in ModalVaults
  /\ stations \in StationLists
  /\ currentStationIndex = 0
  /\ isAnswerVisible = FALSE
  /\ modalCanvasPath \in {""} \cup Paths
  /\ modalScreen = "constructed"
  /\ canvasOverview = 0
  /\ overviews = [k \in 1..MaxOverviews |-> NoOverview]

NextModal ==
  \/ OnOpen
  \/ HandleNext
  \/ HandlePrevious
  \/ HandleEnter
  \/ \E target \in 1..(2 * MaxNodes) : CanvasClick(target)
  \/ Restart
  \/ Close
  \/ \E k \in 1..MaxOverviews : OverviewLoaded(k)

SpecModal == InitModal /\ [][NextModal]_vars

(***************************************************************************)
(* Vocabulary of the properties, stated on the document itself.            *)
(***************************************************************************)
\* rectangle n lies inside rectangle g, edges included
Inside(n, g) ==
  /\ g.x <= n.x
  /\ g.y <= n.y
  /\ n.x + n.width <= g.x + g.width
  /\ n.y + n.height <= g.y + g.height

Loaded == canvasData.kind = "object" /\ canvasData.hasNodes

\* positions in the loaded document of the group-kind nodes containing node n
GroupsAround(n) ==
  {j \in 1..Len(canvasData.nodes) :
     canvasData.nodes[j].type = "group" /\ Inside(n, canvasData.nodes[j])}

\* positions of the text nodes whose text is the decimal string of the id
AnchorsOf(stationId) ==
  {i \in 1..Len(canvasData.nodes) :
     canvasData.nodes[i].type = "text" /\ canvasData.nodes[i].text = ToString(stationId)}

HasAnchor == Loaded /\ currentStationId # NoStation /\ AnchorsOf(currentStationId) # {}

\* the anchor node of the current station: the first such text node
Anchor == canvasData.nodes[MinOf(AnchorsOf(currentStationId))]

NameOf(g) == IF g.label # "" THEN g.label ELSE g.id

(***************************************************************************)
(* C1: setCurrentStation(id) on a document whose anchor of id lies inside  *)
(* two or more groups throws to the caller an error that names the         *)
(* anchor's text and every containing group (label, or id without label).  *)
(***************************************************************************)
C1_MultipleGroupsThrows ==
  (lastOp = "setCurrentStation" /\ HasAnchor /\ Cardinality(GroupsAround(Anchor)) >= 2)
  => /\ thrown.kind = "multipleGroups"
     /\ thrown.text = Anchor.text
     /\ Len(thrown.groups) = Cardinality(GroupsAround(Anchor))
     /\ \A j \in GroupsAround(Anchor) :
          \E k \in 1..Len(thrown.groups) : thrown.groups[k] = NameOf(canvasData.nodes[j])

\* setCurrentStation has thrown for an anchor inside a labelled and an
\* unlabelled group
C1_Witness ==
  /\ lastOp = "setCurrentStation"
  /\ HasAnchor
  /\ Cardinality(GroupsAround(Anchor)) >= 2
  /\ thrown.kind = "multipleGroups"
  /\ \E k \in 1..Len(thrown.groups) : thrown.groups[k] = "Room A"
  /\ \E k \in 1..Len(thrown.groups) : thrown.groups[k] = "gB"

(***************************************************************************)
(* C2: for every node N of the document, findContainingGroup(N) returns    *)
(* null when no group-kind node contains N and returns G when G is the     *)
(* only group-kind node containing N (edges touching count); what it       *)
(* returns is always of kind group.                                        *)
(***************************************************************************)
C2_ContainingGroup ==
  Loaded =>
    \A i \in 1..Len(canvasData.nodes) :
      LET N == canvasData.nodes[i]
          r == findContainingGroup(canvasData, N)
      IN /\ GroupsAround(N) = {} => (r.error = NoError /\ r.group = <<>>)
         /\ \A j \in GroupsAround(N) :
              GroupsAround(N) = {j} => (r.error = NoError /\ r.group = <<canvasData.nodes[j]>>)
         /\ \A k \in 1..Len(r.group) : r.group[k].type = "group"

\* a station was framed whose anchor touches the edges of its only
\* containing group, in a document with a second group that is drawn plain
C2_Witness ==
  /\ lastOp = "setCurrentStation"
  /\ thrown = NoError
  /\ HasAnchor
  /\ \E j \in GroupsAround(Anchor) :
       /\ GroupsAround(Anchor) = {j}
       /\ Anchor.x = canvasData.nodes[j].x
       /\ \E e \in 1..Len(svgContent.elems) :
            /\ svgContent.elems[e].node = canvasData.nodes[j].id
            /\ svgContent.elems[e].highlighted
  /\ \E j \in 1..Len(canvasData.nodes) :
       canvasData.nodes[j].type = "group" /\ j \notin GroupsAround(Anchor)

(***************************************************************************)
(* C3: while the current station's anchor lies inside two or more groups,  *)
(* a render pass (started by setCurrentStation or resetZoom) completes in  *)
(* degraded form: the scene holds every group in its default style and     *)
(* every station anchor, and the multiplicity error reaches the caller.    *)
(***************************************************************************)
C3_DegradedRender ==
  (/\ lastOp \in {"setCurrentStation", "resetZoom"}
   /\ svgElement
   /\ HasAnchor
   /\ Cardinality(GroupsAround(Anchor)) >= 2)
  => /\ thrown.kind = "multipleGroups"
     /\ svgContent.kind = "scene"
     /\ \A i \in 1..Len(canvasData.nodes) :
          LET n == canvasData.nodes[i]
          IN /\ n.type = "group" =>
                  \E e \in 1..Len(svgContent.elems) :
                    /\ svgContent.elems[e] = Elem("rect", "group", n, FALSE, NoStation)
                    /\ \A e2 \in 1..Len(svgContent.elems) :
                         svgContent.elems[e2].node = n.id => ~svgContent.elems[e2].highlighted
             /\ (n.type = "text" /\ IsDecimal(n.text)) =>
                  \E e \in 1..Len(svgContent.elems) :
                    /\ svgContent.elems[e].node = n.id
                    /\ svgContent.elems[e].of = "anchor"
                    /\ svgContent.elems[e].tag = "rect"

(***************************************************************************)
(* C4: once no read is pending, the stored document is the one of the      *)
(* loadCanvas call issued last (when that file is readable), whatever the  *)
(* order in which overlapping reads completed.                             *)
(***************************************************************************)
C4_LastRequestWins ==
  (NumPending = 0 /\ canvasPath # "" /\ files[canvasPath].kind = "object")
  => canvasData = files[canvasPath]

(***************************************************************************)
(* C5: once destroyed, setCurrentStation and resetZoom change nothing of   *)
(* the renderer's state and draw nothing.                                  *)
(***************************************************************************)
C5_DestroyedIsTerminal ==
  [][(~svgElement /\ lastOp' \in {"setCurrentStation", "resetZoom"})
     => UNCHANGED << canvasData, bounds, baseScale, currentStationId,
                     currentZoomScale, panX, panY, svgContent >>]_vars

(***************************************************************************)
(* C6: every destroy() leaves the drawing surface released without an      *)
(* error, in whatever state it is called; while the surface is released    *)
(* nothing is drawn, and a read that settles then raises no error.         *)
(***************************************************************************)
C6_DestroySafe ==
  /\ lastOp = "destroy" => (~svgElement /\ thrown = NoError)
  /\ ~svgElement => svgContent = NoContent
  /\ lastOp = "readResolved" => thrown = NoError

\* a read settled with a document after destroy()
C6_Witness ==
  /\ lastOp = "readResolved"
  /\ ~svgElement
  /\ Loaded
  /\ Len(canvasData.nodes) > 0

(***************************************************************************)
(* The framing left by a successful setCurrentStation, as the properties   *)
(* speak of it.                                                            *)
(***************************************************************************)
\* setCurrentStation found the anchor and returned: a framing took place
Framed == lastOp = "setCurrentStation" /\ thrown = NoError /\ HasAnchor

GroupMode == GroupsAround(Anchor) # {}

\* what is framed: the containing group, or the anchor when it has none
Target == IF GroupMode THEN canvasData.nodes[MinOf(GroupsAround(Anchor))] ELSE Anchor

EffectiveScale == Mul(baseScale, currentZoomScale)

ScaledWidth == Mul(Sub(bounds.maxX, bounds.minX), EffectiveScale)

ScaledHeight == Mul(Sub(bounds.maxY, bounds.minY), EffectiveScale)

\* the target's centre relative to the bounds, at the effective scale
TargetCentreX == Mul(Sub(Add(R(Target.x), Frac(Target.width, 2)), bounds.minX), EffectiveScale)

TargetCentreY == Mul(Sub(Add(R(Target.y), Frac(Target.height, 2)), bounds.minY), EffectiveScale)

\* the pan computed by centring
CentredPanX == Sub(Frac(OVERVIEW_WIDTH, 2), TargetCentreX)

CentredPanY == Sub(Frac(OVERVIEW_HEIGHT, 2), TargetCentreY)

\* pan lies in [-(scaled - available), 0]
InClampRange(pan, scaled, available) ==
  Le(Neg(Sub(scaled, available)), pan) /\ Le(pan, R(0))

(***************************************************************************)
(* C7: after every successful framing, on an axis where the scaled         *)
(* diagram span is strictly greater than the padded viewport span the pan  *)
(* lies in [-(scaledSpan - availableSpan), 0]; on an axis where it is not, *)
(* the pan is the value computed by centring.                              *)
(***************************************************************************)
C7_PanClamped ==
  Framed =>
    /\ IF Gt(ScaledWidth, AvailableWidth)
       THEN InClampRange(panX, ScaledWidth, AvailableWidth)
       ELSE panX = CentredPanX
    /\ IF Gt(ScaledHeight, AvailableHeight)
       THEN InClampRange(panY, ScaledHeight, AvailableHeight)
       ELSE panY = CentredPanY

(***************************************************************************)
(* C8 as stated: after framing, on an axis where the scaled diagram span   *)
(* equals the padded viewport span exactly, the pan is 0.                  *)
(***************************************************************************)
C8_BoundaryPanZero ==
  Framed =>
    /\ ScaledWidth = AvailableWidth => panX = R(0)
    /\ ScaledHeight = AvailableHeight => panY = R(0)

(***************************************************************************)
(* C8 as amended: after framing, on an axis where the scaled diagram span  *)
(* equals the padded viewport span exactly, the pan is not clamped: it is  *)
(* the value computed by centring the target.                              *)
(***************************************************************************)
C8_BoundaryKeepsCentring ==
  Framed =>
    /\ ScaledWidth = AvailableWidth => panX = CentredPanX
    /\ ScaledHeight = AvailableHeight => panY = CentredPanY

\* a framing at the boundary whose pan is not 0
C8_Witness ==
  /\ Framed
  /\ ScaledWidth = AvailableWidth
  /\ panX # R(0)

(***************************************************************************)
(* C9: after a framing with a finite zoom, on an axis where clamping did   *)
(* not alter the pan, the centre of the target (the containing group, or   *)
(* the anchor in node framing), mapped through the render transform,       *)
(* lands on the viewport centre W/2 (H/2).                                 *)
(***************************************************************************)
C9_CentreOnViewportCentre ==
  (Framed /\ IsFinite(currentZoomScale)) =>
    /\ panX = CentredPanX =>
         Add(Add(R(PADDING), panX), TargetCentreX) = Frac(OVERVIEW_WIDTH, 2)
    /\ panY = CentredPanY =>
         Add(Add(R(PADDING), panY), TargetCentreY) = Frac(OVERVIEW_HEIGHT, 2)

(***************************************************************************)
(* C10: resetZoom() leaves currentZoomScale = 1, panX = 0 and panY = 0,    *)
(* and leaves bounds, baseScale and the highlight target unchanged,        *)
(* whatever the state it is called in.                                     *)
(***************************************************************************)
C10_ResetRestoresDefaults ==
  [][lastOp' = "resetZoom"
     => /\ currentZoomScale' = R(1)
        /\ panX' = R(0)
        /\ panY' = R(0)
        /\ UNCHANGED << bounds, baseScale, currentStationId >>]_vars

\* resetZoom ran on a loaded document whose current station has an anchor,
\* and failed in its render pass
C10_Witness ==
  /\ lastOp = "resetZoom"
  /\ HasAnchor
  /\ thrown.kind = "multipleGroups"
  /\ currentZoomScale = R(1)

(***************************************************************************)
(* C11: calling setCurrentStation(id) again with the same id right after   *)
(* a call leaves the transform state (baseScale, currentZoomScale, panX,   *)
(* panY) as the first call left it: the framing a call leaves is the       *)
(* framing a repeated call computes from it.                               *)
(***************************************************************************)
C11_FramingIdempotent ==
  lastOp = "setCurrentStation" =>
    LET again == panToStation(canvasData, bounds, baseScale, CurrentFraming, currentStationId)
    IN /\ again.framing = CurrentFraming
       /\ again.error = thrown
       /\ baseScale = calculateScale(bounds)

\* a call that framed a group with a zoom other than 1 and a pan other than 0
C11_Witness ==
  /\ Framed
  /\ GroupMode
  /\ IsFinite(currentZoomScale)
  /\ currentZoomScale # R(1)
  /\ panX # R(0)

(***************************************************************************)
(* C12: in group framing on a group of positive width and height,          *)
(* currentZoomScale = max(targetZoom / baseScale, 1) with targetZoom =     *)
(* min((W-2P)/(group.width*1.2), (H-2P)/(group.height*1.2)); hence         *)
(* currentZoomScale >= 1 and the effective scale is at least baseScale.    *)
(***************************************************************************)
C12_GroupZoom ==
  (Framed /\ GroupMode /\ Target.width > 0 /\ Target.height > 0) =>
    LET fitX == Div(R(OVERVIEW_WIDTH - 2 * PADDING), Frac(Target.width * 6, 5))
        fitY == Div(R(OVERVIEW_HEIGHT - 2 * PADDING), Frac(Target.height * 6, 5))
        targetZoom == IF Lt(fitY, fitX) THEN fitY ELSE fitX
        ratio == Div(targetZoom, baseScale)
    IN /\ currentZoomScale = IF Lt(ratio, R(1)) THEN R(1) ELSE ratio
       /\ Ge(currentZoomScale, R(1))
       /\ Ge(EffectiveScale, baseScale)

\* a group was framed whose fit zoom is below the base scale, so the floor
\* of 1 applies
C12_Witness ==
  /\ Framed
  /\ GroupMode
  /\ Target.width > 0
  /\ Target.height > 0
  /\ currentZoomScale = R(1)
  /\ Lt(baseScale, R(1))

(***************************************************************************)
(* C13: in node framing (the anchor exists and no group contains it),      *)
(* currentZoomScale = clamp(1/baseScale, 1.5, 3), so it lies in [1.5, 3],  *)
(* whatever zoom the previous target left.                                 *)
(***************************************************************************)
C13_NodeZoom ==
  (Framed /\ ~GroupMode) =>
    LET inv == Div(R(1), baseScale)
    IN /\ currentZoomScale = IF Lt(inv, Frac(3, 2)) THEN Frac(3, 2)
                             ELSE IF Gt(inv, R(3)) THEN R(3) ELSE inv
       /\ Ge(currentZoomScale, Frac(3, 2))
       /\ Le(currentZoomScale, R(3))

\* an ungrouped anchor was framed in a document that also holds a grouped
\* anchor
C13_Witness ==
  /\ Framed
  /\ ~GroupMode
  /\ Ge(currentZoomScale, Frac(3, 2))
  /\ \E i \in 1..Len(canvasData.nodes) :
       canvasData.nodes[i].type = "text" /\ GroupsAround(canvasData.nodes[i]) # {}

(***************************************************************************)
(* C14.  setCurrentStation(id) on a loaded document in which no text node  *)
(* has the decimal string of id as its text raises no error, leaves        *)
(* currentZoomScale, panX and panY as they were, and the scene it renders   *)
(* holds no highlighted anchor and no highlighted group.                   *)
(***************************************************************************)
C14_MissingAnchorNoHighlight ==
  [][(lastOp' = "setCurrentStation" /\ Loaded /\ AnchorsOf(currentStationId') = {})
       => /\ thrown' = NoError
          /\ currentZoomScale' = currentZoomScale
          /\ panX' = panX
          /\ panY' = panY
          /\ \A i \in 1..Len(svgContent'.elems) : ~svgContent'.elems[i].highlighted]_vars

\* the part of C14 that does not speak of the scene
C14_MissingAnchorNoFraming ==
  [][(lastOp' = "setCurrentStation" /\ Loaded /\ AnchorsOf(currentStationId') = {})
       => /\ thrown' = NoError
          /\ currentZoomScale' = currentZoomScale
          /\ panX' = panX
          /\ panY' = panY
          /\ \A i \in 1..Len(svgContent'.elems) :
               svgContent'.elems[i].of = "group" => ~svgContent'.elems[i].highlighted]_vars

(***************************************************************************)
(* C15.  The framing does not survive a reload: when a loadCanvas whose    *)
(* file parsed to a document completes, currentZoomScale is 1 and panX and *)
(* panY are 0, whatever highlight changes came before.                     *)
(***************************************************************************)
C15_ReloadResetsFraming ==
  [][(/\ lastOp' = "readResolved"
      /\ \E path \in Paths : pending'[path] < pending[path] /\ files[path].kind = "object")
       => /\ currentZoomScale' = R(1)
          /\ panX' = R(0)
          /\ panY' = R(0)]_vars

(***************************************************************************)
(* C16.  A loadCanvas whose read or parse fails throws nothing and leaves  *)
(* the error placeholder in the overview; a loadCanvas that then reads a   *)
(* document replaces the placeholder by the scene of that document.        *)
(***************************************************************************)
C16_LoadErrorRecovered ==
  [][lastOp' = "readResolved" =>
       \A path \in Paths :
         pending'[path] < pending[path] =>
           /\ files[path].kind = "bad" =>
                thrown' = NoError /\ (svgElement => svgContent' = ErrorContent)
           /\ (files[path].kind = "object" /\ svgElement /\ svgContent = ErrorContent) =>
                svgContent'.kind = "scene"]_vars

\* C16 for the loads in which the anchor of the current station lies in at
\* most one group of the new document
C16_RecoveredUnlessMultipleGroups ==
  [][lastOp' = "readResolved" =>
       \A path \in Paths :
         pending'[path] < pending[path] =>
           /\ files[path].kind = "bad" =>
                thrown' = NoError /\ (svgElement => svgContent' = ErrorContent)
           /\ (/\ files[path].kind = "object"
               /\ svgElement
               /\ svgContent = ErrorContent
               /\ \A i \in 1..Len(files[path].nodes) :
                    LET n == files[path].nodes[i]
                    IN (n.type = "text" /\ currentStationId # NoStation
                          /\ n.text = ToString(currentStationId))
                         => Cardinality({j \in 1..Len(files[path].nodes) :
                                           /\ files[path].nodes[j].type = "group"
                                           /\ Inside(n, files[path].nodes[j])}) <= 1) =>
                svgContent'.kind = "scene"]_vars

(***************************************************************************)
(* C17.  calculateBounds is total.  For a document with a non-empty node   *)
(* list minX and minY are the least x and y of its nodes and maxX and maxY *)
(* the greatest x + width and y + height; for a document whose node list   *)
(* is empty or missing the bounds are the placeholder 0..100 on both axes; *)
(* in every state minX <= maxX and minY <= maxY.                           *)
(***************************************************************************)
C17_BoundsTotal ==
  /\ Le(bounds.minX, bounds.maxX)
  /\ Le(bounds.minY, bounds.maxY)
  /\ canvasData.kind = "object" =>
       IF canvasData.hasNodes /\ Len(canvasData.nodes) > 0
       THEN LET N == {canvasData.nodes[i] : i \in 1..Len(canvasData.nodes)}
            IN /\ \E n \in N : bounds.minX = R(n.x)
               /\ \A n \in N : Le(bounds.minX, R(n.x))
               /\ \E n \in N : bounds.maxX = R(n.x + n.width)
               /\ \A n \in N : Ge(bounds.maxX, R(n.x + n.width))
               /\ \E n \in N : bounds.minY = R(n.y)
               /\ \A n \in N : Le(bounds.minY, R(n.y))
               /\ \E n \in N : bounds.maxY = R(n.y + n.height)
               /\ \A n \in N : Ge(bounds.maxY, R(n.y + n.height))
       ELSE bounds = [minX |-> R(0), maxX |-> R(100), minY |-> R(0), maxY |-> R(100)]

\* a document was loaded whose right edge is set by a node other than the
\* one that sets the left edge
C17_Witness ==
  /\ Loaded
  /\ lastOp = "readResolved"
  /\ \E i, j \in 1..Len(canvasData.nodes) :
       /\ i # j
       /\ bounds.minX = R(canvasData.nodes[i].x)
       /\ bounds.minX # R(canvasData.nodes[j].x)
       /\ bounds.maxX = R(canvasData.nodes[j].x + canvasData.nodes[j].width)
       /\ bounds.maxX # R(canvasData.nodes[i].x + canvasData.nodes[i].width)
       /\ canvasData.nodes[j].width > 0

\* the spans of the bounds, from the bounds themselves
BoundsWidth == Sub(bounds.maxX, bounds.minX)

BoundsHeight == Sub(bounds.maxY, bounds.minY)

(***************************************************************************)
(* C18.  baseScale is the least of (W - 2P) / boundsWidth,                 *)
(* (H - 2P) / boundsHeight and 1: below 1 when the bounds are wider or     *)
(* taller than the padded viewport, exactly 1 otherwise, never above 1.    *)
(* Below 1 it is the greatest scale at which both spans fit.               *)
(***************************************************************************)
C18_BaseScale ==
  LET oversize == Gt(BoundsWidth, AvailableWidth) \/ Gt(BoundsHeight, AvailableHeight)
  IN /\ Le(baseScale, R(1))
     /\ oversize => Lt(baseScale, R(1))
     /\ ~oversize => baseScale = R(1)
     /\ oversize =>
          /\ Le(Mul(baseScale, BoundsWidth), AvailableWidth)
          /\ Le(Mul(baseScale, BoundsHeight), AvailableHeight)
          /\ \/ Mul(baseScale, BoundsWidth) = AvailableWidth
             \/ Mul(baseScale, BoundsHeight) = AvailableHeight

\* a document taller than the padded viewport but not wider was loaded
C18_Witness ==
  /\ Loaded
  /\ lastOp = "readResolved"
  /\ Le(BoundsWidth, AvailableWidth)
  /\ Gt(BoundsHeight, AvailableHeight)
  /\ Lt(baseScale, R(1))

(***************************************************************************)
(* C19 as stated.  calculateScale never divides by a zero span: on an axis *)
(* whose span is 0 the quotient is taken with the placeholder's 100-unit   *)
(* span as divisor, so both quotients are finite.                          *)
(***************************************************************************)
C19_ZeroSpanUsesPlaceholder ==
  canvasData.kind = "object" =>
    /\ BoundsWidth = R(0) => scaleX(bounds) = Div(AvailableWidth, R(100))
    /\ BoundsHeight = R(0) => scaleY(bounds) = Div(AvailableHeight, R(100))
    /\ IsFinite(scaleX(bounds))
    /\ IsFinite(scaleY(bounds))

(***************************************************************************)
(* C19 amended.  calculateScale has no zero guard: on an axis whose span   *)
(* is 0 the quotient is +Infinity.  The minimum with 1 absorbs it, so      *)
(* baseScale is a finite value in (0, 1], the value the 100-unit divisor   *)
(* would have given.                                                       *)
(***************************************************************************)
C19_BaseScaleFinite ==
  LET Guarded(span) == IF span = R(0) THEN R(100) ELSE span
  IN /\ IsFinite(baseScale)
     /\ Gt(baseScale, R(0))
     /\ Le(baseScale, R(1))
     /\ BoundsWidth = R(0) => scaleX(bounds) = Infinity
     /\ BoundsHeight = R(0) => scaleY(bounds) = Infinity
     /\ baseScale = Min2(Min2(Div(AvailableWidth, Guarded(BoundsWidth)),
                              Div(AvailableHeight, Guarded(BoundsHeight))), R(1))

\* a document of zero width was loaded
C19_Witness ==
  /\ Loaded
  /\ Len(canvasData.nodes) > 0
  /\ lastOp = "readResolved"
  /\ BoundsWidth = R(0)

(***************************************************************************)
(* C20.  A click on the rectangle or the label of a drawn anchor calls the *)
(* registered onStationClick once, with the number parsed from the text of *)
(* that anchor's node; a click on a group or on no element calls nothing,  *)
(* and so does any click while no callback is registered.                  *)
(***************************************************************************)
C20_ClickCallsBack ==
  lastOp = "click" =>
    LET el == lastClick.target
    IN IF el.of = "anchor" /\ onStationClick # NoCallback
       THEN LET n == CHOOSE m \in {NodePool[i] : i \in 1..Len(NodePool)} : m.id = el.node
            IN lastClick.calls =
                 << [callback |-> onStationClick, stationId |-> ParseInt(n.text)] >>
       ELSE lastClick.calls = <<>>

\* the label of the anchor "01" was clicked after a second callback had
\* replaced the first
C20_Witness ==
  /\ lastOp = "click"
  /\ lastClick.target.of = "anchor"
  /\ lastClick.target.tag = "text"
  /\ lastClick.target.node = "n01"
  /\ onStationClick = "cb2"
  /\ Len(lastClick.calls) = 1

(***************************************************************************)
(* Vocabulary of the scene properties.                                     *)
(***************************************************************************)
\* the nodes of the loaded document
DocNodes ==
  IF Loaded THEN {canvasData.nodes[i] : i \in 1..Len(canvasData.nodes)} ELSE {}

\* a station anchor: a non-group text node whose text is decimal digits
IsStationAnchor(n) == n.type # "group" /\ n.type = "text" /\ IsDecimal(n.text)

\* positions in the scene of the elements that listen to clicks
ClickTargets ==
  {i \in 1..Len(svgContent.elems) : svgContent.elems[i].station # NoStation}

\* number of click targets with the given tag drawn for node n
TargetsOf(n, tag) ==
  Cardinality({i \in ClickTargets :
                 svgContent.elems[i].node = n.id /\ svgContent.elems[i].tag = tag})

\* the last step ran a render pass to its end
PassCompleted ==
  /\ lastOp \in {"readResolved", "setCurrentStation", "resetZoom"}
  /\ thrown = NoError
  /\ svgContent.kind = "scene"

DrawnFor(n) == {i \in 1..Len(svgContent.elems) : svgContent.elems[i].node = n.id}

(***************************************************************************)
(* C22.  A scene holds the groups of the document first, then its station  *)
(* anchors, and nothing else: every group has its rectangle, every anchor  *)
(* its rectangle and its label, every element of a group comes before      *)
(* every element of an anchor, and a node that is neither is not drawn and *)
(* has no click target.                                                    *)
(***************************************************************************)
C22_GroupsThenAnchors ==
  svgContent.kind = "scene" =>
    LET E == svgContent.elems
    IN /\ \A i \in 1..Len(E) :
            \E n \in DocNodes :
              /\ n.id = E[i].node
              /\ \/ n.type = "group" /\ E[i].of = "group" /\ E[i].station = NoStation
                 \/ IsStationAnchor(n) /\ E[i].of = "anchor"
       /\ \A n \in DocNodes :
            /\ n.type = "group" =>
                 \E i \in DrawnFor(n) : E[i].tag = "rect"
            /\ IsStationAnchor(n) =>
                 /\ \E i \in DrawnFor(n) : E[i].tag = "rect"
                 /\ \E i \in DrawnFor(n) : E[i].tag = "text"
            /\ (n.type # "group" /\ ~IsStationAnchor(n)) => DrawnFor(n) = {}
       /\ \A i, j \in 1..Len(E) :
            (E[i].of = "group" /\ E[j].of = "anchor") => i < j

\* a scene of a document in which an anchor comes before a group and a
\* third node is neither
C22_Witness ==
  /\ svgContent.kind = "scene"
  /\ \E n, g, f \in DocNodes :
       /\ IsStationAnchor(n)
       /\ g.type = "group"
       /\ f.type # "group" /\ ~IsStationAnchor(f)
       /\ \E i, j \in 1..Len(canvasData.nodes) :
            i < j /\ canvasData.nodes[i] = n /\ canvasData.nodes[j] = g

\* the scene's highlighting agrees with the current station: an anchor's
\* rectangle is highlighted exactly if the number parsed from its text is
\* the current station, a group's elements exactly if the group is the only
\* group around the current station's anchor
HighlightMatchesTarget ==
  \A i \in 1..Len(svgContent.elems) :
    LET el == svgContent.elems[i]
    IN \A n \in DocNodes :
         n.id = el.node =>
           /\ (el.of = "anchor" /\ el.tag = "rect") =>
                (el.highlighted <=> ParseInt(n.text) = currentStationId)
           /\ el.of = "group" =>
                (el.highlighted <=>
                   /\ HasAnchor
                   /\ Cardinality(GroupsAround(Anchor)) = 1
                   /\ \A j \in GroupsAround(Anchor) : canvasData.nodes[j] = n)

(***************************************************************************)
(* C23.  In every scene an anchor is drawn highlighted if and only if its  *)
(* parsed number is the current station, and a group if and only if it is  *)
(* the one group containing the current station's anchor; so once the      *)
(* station has changed from a to b the anchor of a is in default style.    *)
(***************************************************************************)
C23_HighlightMatchesTarget == svgContent.kind = "scene" => HighlightMatchesTarget

\* C23 for the scenes left by a pass that ran to its end
C23_HighlightAfterCompletedPass == PassCompleted => HighlightMatchesTarget

(***************************************************************************)
(* C24.  'Sync Memory Palace' honours the format of the frontmatter: with  *)
(* format M2 the sync is done in M2 format, with M1 in M1 format, and the  *)
(* content decides only when the frontmatter names no format.              *)
(***************************************************************************)
C24_ExplicitFormatHonoured ==
  (lastOp = "sync-memory-palace" /\ syncFormat # "none") =>
    /\ activeFile.format = "M2" => syncFormat = "M2"
    /\ activeFile.format = "M1" => syncFormat = "M1"
    /\ activeFile.format = "" =>
         syncFormat = (IF \E i \in 1..Len(activeFile.content) :
                            activeFile.content[i] \in {"association", "image", "audio"}
                       THEN "M2" ELSE "M1")

(***************************************************************************)
(* C25.  In the presentation modal, once no load is pending, the overview  *)
(* on the page has the station at currentStationIndex as its current       *)
(* station and highlights no anchor of another station, whatever the       *)
(* navigation events were and in whatever order the loads settled.         *)
(***************************************************************************)
C25_HighlightFollowsIndex ==
  (/\ modalScreen = "station"
   /\ canvasOverview # 0
   /\ \A k \in 1..MaxOverviews : overviews[k].awaiting = NoStation) =>
    LET o == overviews[canvasOverview]
        shown == stations[currentStationIndex + 1]
    IN /\ o.currentStationId = shown
       /\ \A i \in 1..Len(o.svgContent.elems) :
            o.svgContent.elems[i].highlighted /\ o.svgContent.elems[i].of = "anchor"
              => o.svgContent.elems[i].station = shown

(***************************************************************************)
(* C26.  The anchor drawn highlighted is the node framing targets: in the  *)
(* scene a completed pass leaves, a highlighted anchor has the decimal     *)
(* string of the current station as its text and is the anchor framing     *)
(* resolves to, so at most one anchor is highlighted.                      *)
(***************************************************************************)
C26_HighlightIsFramedAnchor ==
  PassCompleted =>
    \A i \in 1..Len(svgContent.elems) :
      LET el == svgContent.elems[i]
      IN (el.of = "anchor" /\ el.highlighted) =>
           /\ HasAnchor
           /\ el.node = Anchor.id
           /\ Anchor.text = ToString(currentStationId)

\* C26 without the requirement on the text: a highlighted anchor parses to
\* the current station
C26_HighlightParsesToTarget ==
  PassCompleted =>
    \A i \in 1..Len(svgContent.elems) :
      LET el == svgContent.elems[i]
      IN (el.of = "anchor" /\ el.highlighted) =>
           \E n \in DocNodes : n.id = el.node /\ ParseInt(n.text) = currentStationId

\* the placeholder of a failed load is shown over a document loaded before:
\* the last load asked for has settled and its file could not be read
PlaceholderOfFailedLoad ==
  /\ svgElement
  /\ svgContent = ErrorContent
  /\ canvasData.kind = "object"
  /\ NumPending = 0
  /\ canvasPath # ""
  /\ files[canvasPath].kind = "bad"

(***************************************************************************)
(* C27.  After a load that failed on a renderer holding an earlier         *)
(* document, setCurrentStation and resetZoom draw no scene over the error  *)
(* placeholder.                                                            *)
(***************************************************************************)
C27_PlaceholderStays ==
  [][(PlaceholderOfFailedLoad /\ lastOp' \in {"setCurrentStation", "resetZoom"})
       => svgContent'.kind # "scene"]_vars


(***************************************************************************)
(* C28: when setCurrentStation(id) fails with the multiple-groups error,   *)
(* zoom, panX and panY keep the values they had before the call, and       *)
(* bounds and baseScale are unchanged.                                     *)
(***************************************************************************)
C28_FailedFramingKeepsView ==
  [][(lastOp' = "setCurrentStation" /\ thrown'.kind = "multipleGroups")
       => /\ currentZoomScale' = currentZoomScale
          /\ panX' = panX
          /\ panY' = panY
          /\ bounds' = bounds
          /\ baseScale' = baseScale]_vars

\* setCurrentStation has thrown the multiple-groups error on a loaded
\* document whose base scale is below 1, so that framing the anchor would
\* have changed the view
C28_Witness ==
  /\ lastOp = "setCurrentStation"
  /\ thrown.kind = "multipleGroups"
  /\ HasAnchor
  /\ Lt(baseScale, R(1))
  /\ currentZoomScale = R(1)

(***************************************************************************)
(* C29: after setCurrentStation has framed a group of positive width and   *)
(* height (the group being one of the nodes the bounds were computed       *)
(* from), the group fits the available space on both axes:                 *)
(* width * baseScale * zoom <= W - 2P and height * baseScale * zoom        *)
(* <= H - 2P.                                                              *)
(***************************************************************************)
C29_FramedGroupFits ==
  (Framed /\ GroupMode /\ Target.width > 0 /\ Target.height > 0)
  => /\ Le(Mul(R(Target.width), EffectiveScale), AvailableWidth)
     /\ Le(Mul(R(Target.height), EffectiveScale), AvailableHeight)

\* a group of positive size has been framed at the floor zoom of 1 and
\* fills the available width exactly
C29_Witness ==
  /\ Framed
  /\ GroupMode
  /\ Target.width > 0
  /\ Target.height > 0
  /\ currentZoomScale = R(1)
  /\ Mul(R(Target.width), EffectiveScale) = AvailableWidth

\* a group of positive size has been framed at a zoom above 1
C29_WitnessZoomed ==
  /\ Framed
  /\ GroupMode
  /\ Target.width > 0
  /\ Target.height > 0
  /\ Gt(currentZoomScale, R(1))

\* the step is a click on an anchor of the overview whose station id is not
\* in the station list
ClickOnUnlistedStation ==
  /\ canvasOverview # 0
  /\ \E target \in 1..Len(overviews[canvasOverview].svgContent.elems) :
       /\ overviews[canvasOverview].svgContent.elems[target].station # NoStation
       /\ StationIndexes(overviews[canvasOverview].svgContent.elems[target].station) = {}
       /\ CanvasClick(target)

AtFirstStation == currentStationIndex = 0

AtLastStation == currentStationIndex = Len(stations) - 1

\* the parts of C30 that do not concern Previous at the first station
NavigationRules ==
  /\ currentStationIndex' \in 0..(Len(stations') - 1)
  /\ (lastOp' = "handleNext" /\ AtLastStation)
       => (modalScreen' = "end" /\ currentStationIndex' = currentStationIndex)
  /\ ClickOnUnlistedStation
       => (currentStationIndex' = currentStationIndex /\ isAnswerVisible' = isAnswerVisible)
  /\ currentStationIndex' # currentStationIndex => ~isAnswerVisible'
  /\ (lastOp' = "handleEnter" /\ ~isAnswerVisible)
       => (isAnswerVisible' /\ currentStationIndex' = currentStationIndex)
  /\ (lastOp' = "handleEnter" /\ currentStationIndex' # currentStationIndex)
       => isAnswerVisible

(***************************************************************************)
(* C30: in a modal with n >= 1 stations, 0 <= currentStationIndex <= n-1   *)
(* after every step; Next at the last station shows the end screen and     *)
(* Previous at the first station does nothing, both leaving the index      *)
(* unchanged; a canvas click on a station id that is not in the list       *)
(* changes neither the index nor the answer visibility; every change of    *)
(* station resets isAnswerVisible to false; Enter reveals the answer       *)
(* before it advances.                                                     *)
(***************************************************************************)
C30_NavigationStaysInRange ==
  [][/\ NavigationRules
     /\ (lastOp' = "handlePrevious" /\ AtFirstStation)
          => UNCHANGED << currentStationIndex, isAnswerVisible, modalScreen,
                          canvasOverview, overviews >>]_vars

\* what holds of Previous at the first station: the index, the page and the
\* overviews stay, the answer flag is cleared
C30_NavigationExceptAnswerFlag ==
  [][/\ NavigationRules
     /\ (lastOp' = "handlePrevious" /\ AtFirstStation)
          => /\ UNCHANGED << currentStationIndex, modalScreen, canvasOverview,
                              overviews >>
             /\ ~isAnswerVisible']_vars

\* Previous has been pressed at the first station of a list of two
C30_PreviousAtFirst ==
  /\ lastOp = "handlePrevious"
  /\ AtFirstStation
  /\ Len(stations) = 2
  /\ modalScreen = "station"

\* Next has been pressed at the last station of a list of two
C30_NextAtLast ==
  /\ lastOp = "handleNext"
  /\ AtLastStation
  /\ Len(stations) = 2
  /\ modalScreen = "end"

\* an anchor whose station is not in the list has been clicked while the
\* answer was visible
C30_UnlistedClicked ==
  /\ lastOp = "canvasClick"
  /\ isAnswerVisible
  /\ canvasOverview # 0
  /\ \E target \in 1..Len(overviews[canvasOverview].svgContent.elems) :
       /\ overviews[canvasOverview].svgContent.elems[target].station # NoStation
       /\ StationIndexes(overviews[canvasOverview].svgContent.elems[target].station) = {}

=============================================================================
